---- MODULE Spec2Model ----
(***************************************************************************)
(* Behavioural cloning trainer (imitation/algorithms/bc.py).               *)
(*                                                                         *)
(* The model covers set_tf_vars, BCTrainer.__init__, set_expert_dataset,   *)
(* train, save_policy and reconstruct_policy.  The TensorFlow graph is a   *)
(* sequence of variables (name scope, trainable flag, shape, value); the   *)
(* expert dataset is the shuffled sample sequence with its cursor; train   *)
(* is followed statement by statement through its two nested loops.        *)
(*                                                                         *)
(* Exceptions are named after the error the specification gives to the     *)
(* point of detection: the three assertions of set_tf_vars are             *)
(* ConfigurationError, ShapeMismatchError and NoActiveSessionError, the    *)
(* attribute access on a None dataset is NoDatasetError.  Exceptions the   *)
(* specification has no name for keep their Python name.                   *)
(***************************************************************************)
EXTENDS Integers, Sequences, FiniteSets, TLC

VARIABLES
    graph,           \* tf variables of the default graph, with their session values
    policy_class,    \* self.policy_class
    batch_size,      \* self.batch_size
    expert_dataset,  \* self.expert_dataset: <<>> (None) or <<Dataset>>
    last_demos,      \* history: <<>> or <<the Transitions the dataset was built from>>
    pc,              \* position inside train: idle, epoch, batch, raised
    n_epochs,        \* train's argument
    on_epoch_end,    \* train's argument: TRUE when a callback is supplied
    epoch_num,       \* train's local
    total_batches,   \* train's local
    batch_dict,      \* train's local: the batch of the latest step
    loss_ewma,       \* train's local: <<>> (None) or <<[num, den]>>
    error,           \* exception propagating out of train, "" when none
    epoch_losses,    \* history: batch losses of the current epoch
    step_log,        \* history: epoch number of every optimizer step of this call
    cb_log,          \* history: callback invocations of this call
    files,           \* file system: path -> <<>> (absent) or <<saved record>>
    call,            \* pending stand-alone set_tf_vars call, <<>> when none
    last             \* outcome of the latest set_tf_vars/save/reconstruct call

vars == <<graph, policy_class, batch_size, expert_dataset, last_demos, pc,
          n_epochs, on_epoch_end, epoch_num, total_batches, batch_dict,
          loss_ewma, error, epoch_losses, step_log, cb_log, files, call, last>>

trainVars == <<pc, n_epochs, on_epoch_end, epoch_num, total_batches, batch_dict,
               loss_ewma, error, epoch_losses, step_log, cb_log>>

(***************************************************************************)
(* Bounds of the model.                                                    *)
(***************************************************************************)
MaxSamples == 3
MaxBatch == 2
MaxEpochs == 2

None == <<>>
Some(x) == <<x>>

\* Values a scalar entry of a parameter array takes in the model.
Values == {0, 1}
\* Losses the loss node evaluates to in the model.
Losses == {1, 2}
\* Identities of the Transitions objects callers pass in.
DemoIds == {1, 2}
\* Paths callers save policies to.
Paths == {"policy_a.pkl", "policy_b.pkl"}

Min(a, b) == IF a < b THEN a ELSE b

(***************************************************************************)
(* Expert transitions and the Dataset built over them.                     *)
(***************************************************************************)
\* A Transitions object with n aligned (obs, act) pairs; pair i of object id
\* is the number 10*id + i.
Transitions(id, n) == [i \in 1..n |-> 10 * id + i]

AllDemos == {Transitions(id, n) : id \in DemoIds, n \in 0..MaxSamples}

Range(s) == {s[i] : i \in DOMAIN s}

\* The Transitions a trainer is constructed with are those of identity 1;
\* set_expert_dataset takes any.
InitDemos == {Transitions(1, n) : n \in 0..MaxSamples}

\* Dataset.shuffle_dataset: every permutation of the rows is a possible result.
shuffle_dataset(data_map) ==
    {[i \in 1..Len(data_map) |-> data_map[p[i]]] :
        p \in Permutations(1..Len(data_map))}

\* Dataset(data_map, shuffle=True): n_samples rows, cursor at 0, rows shuffled.
Dataset(demos) ==
    {[data_map |-> d, next_id |-> 0] : d \in shuffle_dataset(demos)}

n_samples(ds) == Len(ds.data_map)

\* Dataset.next_batch(batch_size): the set of (dataset after, batch) outcomes.
next_batch(ds, bs) ==
    LET pre == IF ds.next_id >= n_samples(ds)
               THEN {[data_map |-> d, next_id |-> 0] :
                        d \in shuffle_dataset(ds.data_map)}
               ELSE {ds}
    IN  {LET cur_id == d.next_id
             cur_batch_size == Min(bs, n_samples(d) - cur_id)
         IN  [ds    |-> [d EXCEPT !.next_id = cur_id + cur_batch_size],
              batch |-> SubSeq(d.data_map, cur_id + 1, cur_id + cur_batch_size)] :
         d \in pre}

\* Loop condition of Dataset.iterate_once.
iterate_has_next(ds, bs) == ds.next_id <= n_samples(ds) - bs

(***************************************************************************)
(* The graph.                                                              *)
(***************************************************************************)
TrainerScope == "bc_supervised_loss/model"
LossScope == "bc_supervised_loss"
ReconstructScope == "reconstructed_policy"

\* Shapes of the policy's trainable parameters, in declaration order.
ParamShapes == <<2, 1>>
NParams == Len(ParamShapes)

\* Value of a variable no initializer or assign has run for.
Uninit == -1

Var(base, uniq, trainable, shape, val) ==
    [base |-> base, uniq |-> uniq, trainable |-> trainable,
     shape |-> shape, val |-> val]

\* self.policy_variables: the policy's variables are the first of the graph.
policy_variables == [i \in 1..NParams |-> i]

\* Variables _build_tf_graph adds: the policy's parameters under
\* bc_supervised_loss/model, then the optimiser's accumulator (not trainable).
\* global_variables_initializer gives each some initial value.
BuiltGraphs ==
    {[i \in 1..(NParams + 1) |->
        IF i <= NParams
        THEN Var(TrainerScope, 0, TRUE, ParamShapes[i], v[i])
        ELSE Var(LossScope, 0, FALSE, 1, v[i])] :
     v \in [1..(NParams + 1) -> Values]}

\* sess.run(self.policy_variables)
PolicyParams(g) == [i \in 1..NParams |-> g[policy_variables[i]].val]

(***************************************************************************)
(* BCTrainer.set_expert_dataset                                            *)
(***************************************************************************)
\* A plausible slip: the variables are initialised again with the new data.
set_expert_dataset_Reinit(demos) ==
    /\ pc = "idle"
    /\ \E ds \in Dataset(demos) : expert_dataset' = Some(ds)
    /\ last_demos' = Some(demos)
    /\ graph' \in {g \in BuiltGraphs : \A i \in DOMAIN g : g[i].val = 0}
    /\ UNCHANGED <<policy_class, batch_size, files, call, last>>
    /\ UNCHANGED trainVars

set_expert_dataset(demos) ==
    /\ pc = "idle"
    /\ \E ds \in Dataset(demos) : expert_dataset' = Some(ds)
    /\ last_demos' = Some(demos)
    /\ UNCHANGED <<graph, policy_class, batch_size, files, call, last>>
    /\ UNCHANGED trainVars

(***************************************************************************)
(* BCTrainer.train                                                         *)
(***************************************************************************)
\* A plausible slip: one epoch too many.
EpochRange_OneMore(n) == 0..n

\* trange(n_epochs): the epoch numbers the outer loop runs through.
EpochRange(n) == 0..(n - 1)

\* Smoothing weights of the loss average, in tenths.
EwmaKeep == 9
EwmaNew == 1
EwmaDen == 10

\* loss_ewma after one more batch loss; an exact fraction num/den.
UpdateEwma(ewma, loss) ==
    IF ewma = None
    THEN Some([num |-> loss, den |-> 1])
    ELSE Some([num |-> EwmaKeep * ewma[1].num + EwmaNew * loss * ewma[1].den,
               den |-> EwmaDen * ewma[1].den])

\* A plausible slip: the average is initialised once, outside the epoch loop.
EpochStartEwma_Carried(ewma) == ewma

\* Line 133: the average every epoch starts from.
EpochStartEwma(ewma) == None

\* A plausible slip: the callback is handed a 1-based epoch number.
InvokeCallback_OneBased(log, cb, epoch, steps) ==
    IF cb THEN Append(log, [epoch_num |-> epoch + 1, steps |-> steps]) ELSE log

\* Lines 148-149: the callback, when one is supplied, is invoked with the
\* locals; the history keeps the epoch number it sees and the number of
\* optimizer steps applied before it runs.
InvokeCallback(log, cb, epoch, steps) ==
    IF cb THEN Append(log, [epoch_num |-> epoch, steps |-> steps]) ELSE log

\* Loop exit of the outer loop: every epoch of trange(n_epochs) has run.
TrainFinished == pc = "epoch" /\ epoch_num \notin EpochRange(n_epochs)

\* Entering train: the frame's locals are fresh.
train_call(n, cb) ==
    /\ pc = "idle"
    /\ pc' = "epoch"
    /\ n_epochs' = n
    /\ on_epoch_end' = cb
    /\ epoch_num' = 0
    /\ total_batches' = 0
    /\ batch_dict' = <<>>
    /\ loss_ewma' = None
    /\ error' = ""
    /\ epoch_losses' = <<>>
    /\ step_log' = <<>>
    /\ cb_log' = <<>>
    /\ UNCHANGED <<graph, policy_class, batch_size, expert_dataset, last_demos,
                   files, call, last>>

\* A plausible slip: a missing dataset is taken for one without rows.
EpochHead_NoneAsEmpty(ds, bs) ==
    IF ds = None
    THEN {[error |-> "", total_batches |-> 0,
           ds |-> Some([data_map |-> <<>>, next_id |-> 0])]}
    ELSE {[error |-> "",
           total_batches |-> n_samples(ds[1]) \div bs,
           ds |-> Some([ds[1] EXCEPT !.data_map = d])] :
          d \in shuffle_dataset(ds[1].data_map)}

\* Lines 128-129: reading n_samples of a None dataset raises; otherwise the
\* batch count is computed and iterate_once starts its pass with a reshuffle.
EpochHead(ds, bs) ==
    IF ds = None
    THEN {[error |-> "NoDatasetError", total_batches |-> 0, ds |-> ds]}
    ELSE {[error |-> "",
           total_batches |-> n_samples(ds[1]) \div bs,
           ds |-> Some([ds[1] EXCEPT !.data_map = d])] :
          d \in shuffle_dataset(ds[1].data_map)}

\* Lines 128-133: head of an epoch.
train_epoch_begin ==
    /\ pc = "epoch"
    /\ epoch_num \in EpochRange(n_epochs)
    /\ \E head \in EpochHead(expert_dataset, batch_size) :
          IF head.error # ""
          THEN /\ pc' = "raised"
               /\ error' = head.error
               /\ UNCHANGED <<expert_dataset, total_batches, loss_ewma,
                              epoch_losses>>
          ELSE /\ total_batches' = head.total_batches
               /\ expert_dataset' = head.ds
               /\ loss_ewma' = EpochStartEwma(loss_ewma)
               /\ epoch_losses' = <<>>
               /\ pc' = "batch"
               /\ UNCHANGED error
    /\ UNCHANGED <<graph, policy_class, batch_size, last_demos, n_epochs,
                   on_epoch_end, epoch_num, batch_dict, step_log, cb_log,
                   files, call, last>>

\* sess.run([self._train_op, self._log_loss]): one Adam step moves the policy's
\* parameters and the optimiser's accumulator and yields the batch loss.
TrainOpResults(g) ==
    {[i \in 1..Len(g) |->
        IF i \in 1..(NParams + 1) THEN [g[i] EXCEPT !.val = v[i]] ELSE g[i]] :
     v \in [1..(NParams + 1) -> Values]}

\* Lines 134-146: one batch of the inner loop.
train_batch ==
    /\ pc = "batch"
    /\ iterate_has_next(expert_dataset[1], batch_size)
    /\ \E nb \in next_batch(expert_dataset[1], batch_size) :
          /\ expert_dataset' = Some(nb.ds)
          /\ batch_dict' = nb.batch
    /\ graph' \in TrainOpResults(graph)
    /\ \E loss \in Losses :
          /\ loss_ewma' = UpdateEwma(loss_ewma, loss)
          /\ epoch_losses' = Append(epoch_losses, loss)
    /\ step_log' = Append(step_log, epoch_num)
    /\ UNCHANGED <<policy_class, batch_size, last_demos, pc, n_epochs,
                   on_epoch_end, epoch_num, total_batches, error, cb_log,
                   files, call, last>>

\* Lines 147-149: the batch iterator is exhausted (its cursor goes back to 0);
\* formatting loss_ewma raises when it is None; then the callback runs.
train_epoch_end ==
    /\ pc = "batch"
    /\ ~iterate_has_next(expert_dataset[1], batch_size)
    /\ expert_dataset' = Some([expert_dataset[1] EXCEPT !.next_id = 0])
    /\ IF loss_ewma = None
       THEN /\ pc' = "raised"
            /\ error' = "TypeError"
            /\ UNCHANGED <<epoch_num, cb_log>>
       ELSE /\ cb_log' = InvokeCallback(cb_log, on_epoch_end, epoch_num,
                                        Len(step_log))
            /\ epoch_num' = epoch_num + 1
            /\ pc' = "epoch"
            /\ UNCHANGED error
    /\ UNCHANGED <<graph, policy_class, batch_size, last_demos, n_epochs,
                   on_epoch_end, total_batches, batch_dict, loss_ewma,
                   epoch_losses, step_log, files, call, last>>

\* The frame is dropped: normal return after the last epoch, or the exception
\* leaves train.
train_return ==
    /\ \/ TrainFinished
       \/ pc = "raised"
    /\ pc' = "idle"
    /\ n_epochs' = 0
    /\ on_epoch_end' = FALSE
    /\ epoch_num' = 0
    /\ total_batches' = 0
    /\ batch_dict' = <<>>
    /\ loss_ewma' = None
    /\ error' = ""
    /\ epoch_losses' = <<>>
    /\ step_log' = <<>>
    /\ cb_log' = <<>>
    /\ UNCHANGED <<graph, policy_class, batch_size, expert_dataset, last_demos,
                   files, call, last>>

(***************************************************************************)
(* BCTrainer.__init__                                                      *)
(***************************************************************************)
NoLast == [op |-> "", error |-> "", ret |-> <<>>]

InitFrame ==
    /\ pc = "idle"
    /\ n_epochs = 0
    /\ on_epoch_end = FALSE
    /\ epoch_num = 0
    /\ total_batches = 0
    /\ batch_dict = <<>>
    /\ loss_ewma = None
    /\ error = ""
    /\ epoch_losses = <<>>
    /\ step_log = <<>>
    /\ cb_log = <<>>

\* State after BCTrainer(env, expert_demos=demos or None, batch_size=bs).
Init ==
    /\ graph \in BuiltGraphs
    /\ policy_class \in {"FeedForward32Policy"}
    /\ batch_size \in 1..MaxBatch
    /\ \/ expert_dataset = None /\ last_demos = None
       \/ \E demos \in InitDemos :
             /\ expert_dataset \in {Some(ds) : ds \in Dataset(demos)}
             /\ last_demos = Some(demos)
    /\ InitFrame
    /\ files = [p \in Paths |-> None]
    /\ call = None
    /\ last = NoLast

Next ==
    \/ \E demos \in AllDemos : set_expert_dataset(demos)
    \/ \E n \in 0..MaxEpochs, cb \in BOOLEAN : train_call(n, cb)
    \/ train_epoch_begin
    \/ train_batch
    \/ train_epoch_end
    \/ train_return

Spec == Init /\ [][Next]_vars

(***************************************************************************)
(* set_tf_vars                                                             *)
(***************************************************************************)
MaxValues == 2

\* numpy arrays callers pass: a shape and the scalar that fills it.
Shapes == {1, 2}
Arrays == [shape : Shapes, val : Values]

\* re.match(scope, name): scope is a prefix of the variable's name.  A scope
\* is written [base, uniq]: uniq = 0 is the bare name, uniq = k the name with
\* the suffix _k that a re-entered name scope gets.
IsPrefix(a, b) == a = b \/ (a = LossScope /\ b = TrainerScope)

ScopeMatches(scope, v) ==
    /\ IsPrefix(scope.base, v.base)
    /\ scope.uniq = 0 \/ scope.uniq = v.uniq

RECURSIVE Select(_, _, _)
Select(g, scope, i) ==
    IF i > Len(g) THEN <<>>
    ELSE (IF g[i].trainable /\ ScopeMatches(scope, g[i]) THEN <<i>> ELSE <<>>)
            \o Select(g, scope, i + 1)

\* A plausible slip: the scope is dropped and every trainable variable taken.
RECURSIVE SelectAll(_, _)
SelectAll(g, i) ==
    IF i > Len(g) THEN <<>>
    ELSE (IF g[i].trainable THEN <<i>> ELSE <<>>) \o SelectAll(g, i + 1)

get_collection_AnyScope(g, scope) == SelectAll(g, 1)

\* tf.get_collection(TRAINABLE_VARIABLES, scope=scope): the trainable
\* variables whose name the scope matches, in creation order.
get_collection(g, scope) == Select(g, scope, 1)

\* Lines 42-46: the destination variables, or the failed assertion.
ResolveVars(g, scope, tf_vars) ==
    IF scope # None
    THEN IF tf_vars # None
         THEN [error |-> "ConfigurationError", vars |-> <<>>]
         ELSE [error |-> "", vars |-> get_collection(g, scope[1])]
    ELSE IF tf_vars = None
         THEN [error |-> "ConfigurationError", vars |-> <<>>]
         ELSE [error |-> "", vars |-> tf_vars[1]]

\* A plausible slip: surplus values are tolerated.
CountMatches_AtLeast(dest, values) == Len(dest) <= Len(values)

\* Line 47
CountMatches(dest, values) == Len(dest) = Len(values)

\* Line 50: sess or tf.get_default_session()
ResolveSess(sess, default_sess) == sess \/ default_sess

\* Line 52 and the feed of line 54: a placeholder has its variable's shape and
\* takes only a value of that shape.
FeedFits(g, dest, values) ==
    \A i \in DOMAIN dest : values[i].shape = g[dest[i]].shape

\* A plausible slip: the values are paired with the variables back to front.
AssignResults_Reversed(g, dest, values) ==
    {[j \in DOMAIN g |->
        IF j \in Range(dest)
        THEN [g[j] EXCEPT !.val = values[Len(dest) + 1 - w[j]].val]
        ELSE g[j]] :
     w \in {f \in [Range(dest) -> DOMAIN dest] : \A j \in Range(dest) : dest[f[j]] = j}}

\* Lines 53-56: the assign ops run in one sess.run, the i-th fed the i-th
\* value.  Two ops on one variable run in either order.
AssignResults(g, dest, values) ==
    {[j \in DOMAIN g |->
        IF j \in Range(dest) THEN [g[j] EXCEPT !.val = values[w[j]].val]
        ELSE g[j]] :
     w \in {f \in [Range(dest) -> DOMAIN dest] : \A j \in Range(dest) : dest[f[j]] = j}}

\* set_tf_vars(values=, scope=, tf_vars=, sess=): the possible outcomes.
set_tf_vars(g, values, scope, tf_vars, sess, default_sess) ==
    LET r == ResolveVars(g, scope, tf_vars)
        Fail(e) == {[error |-> e, graph |-> g]}
    IN  IF r.error # "" THEN Fail(r.error)
        ELSE IF ~CountMatches(r.vars, values) THEN Fail("ShapeMismatchError")
        ELSE IF ~ResolveSess(sess, default_sess) THEN Fail("NoActiveSessionError")
        ELSE IF ~FeedFits(g, r.vars, values) THEN Fail("ValueError")
        ELSE {[error |-> "", graph |-> g2] : g2 \in AssignResults(g, r.vars, values)}

\* A caller's stand-alone call of set_tf_vars, with the arguments in call.
set_tf_vars_call ==
    /\ call # None
    /\ last.op = ""
    /\ pc = "idle"
    /\ \E out \in set_tf_vars(graph, call[1].values, call[1].scope,
                              call[1].tf_vars, call[1].sess, call[1].default_sess) :
          /\ graph' = out.graph
          /\ last' = [op |-> "set_tf_vars", error |-> out.error, ret |-> <<>>]
    /\ UNCHANGED <<policy_class, batch_size, expert_dataset, last_demos, files, call>>
    /\ UNCHANGED trainVars

(***************************************************************************)
(* BCTrainer.save_policy and BCTrainer.reconstruct_policy                  *)
(***************************************************************************)
MaxVars == 7

\* Policy classes differ in how their constructor creates variables:
\* FeedForward32Policy through tf.get_variable (named by the variable scope),
\* RawVariablePolicy through tf.Variable (named by the name scope).
PolicyClasses == {"FeedForward32Policy", "RawVariablePolicy"}

\* sess.run(self.policy_variables): the parameter arrays in declaration order.
PolicyArrays(g) ==
    [i \in 1..NParams |->
        [shape |-> g[policy_variables[i]].shape, val |-> g[policy_variables[i]].val]]

save_policy(path) ==
    /\ pc = "idle"
    /\ files' = [files EXCEPT ![path] =
                    Some([class  |-> policy_class,
                          params |-> PolicyArrays(graph)])]
    /\ last' = [op |-> "save_policy", error |-> "", ret |-> <<>>]
    /\ UNCHANGED <<graph, policy_class, batch_size, expert_dataset, last_demos, call>>
    /\ UNCHANGED trainVars

\* How often variable_scope("reconstructed_policy") was entered by a class
\* that left variables behind: the suffix the next name scope gets.
NameScopeEntries(g) ==
    Cardinality({g[i].uniq : i \in {j \in DOMAIN g : g[j].base = ReconstructScope}})

\* Lines 237-239: klass(sess=sess, **kwargs) inside
\* variable_scope("reconstructed_policy").  tf.get_variable refuses a name
\* that exists; tf.Variable takes the uniquified name scope.  New variables
\* hold no value yet.
ConstructPolicy(g, klass) ==
    LET fresh(uniq) == [i \in 1..NParams |->
                           Var(ReconstructScope, uniq, TRUE, ParamShapes[i], Uninit)]
    IN  IF klass = "FeedForward32Policy"
        THEN IF \E i \in DOMAIN g : g[i].base = ReconstructScope /\ g[i].uniq = 0
             THEN [error |-> "ValueError", graph |-> g, pol |-> <<>>]
             ELSE [error |-> "", graph |-> g \o fresh(0),
                   pol |-> [i \in 1..NParams |-> Len(g) + i]]
        ELSE [error |-> "", graph |-> g \o fresh(NameScopeEntries(g)),
              pol |-> [i \in 1..NParams |-> Len(g) + i]]

\* The scope reconstruct_policy hands to set_tf_vars: the variable scope's
\* name, which is the same on every call.
inner_scope == [base |-> ReconstructScope, uniq |-> 0]

reconstruct_policy(path, sess, default_sess) ==
    /\ pc = "idle"
    /\ Len(graph) + NParams <= MaxVars
    /\ IF ~ResolveSess(sess, default_sess)
       THEN /\ last' = [op |-> "reconstruct_policy",
                        error |-> "NoActiveSessionError", ret |-> <<>>]
            /\ UNCHANGED graph
       ELSE IF files[path] = None
       THEN /\ last' = [op |-> "reconstruct_policy",
                        error |-> "FileNotFoundError", ret |-> <<>>]
            /\ UNCHANGED graph
       ELSE LET loaded_pickle == files[path][1]
                built == ConstructPolicy(graph, loaded_pickle.class)
            IN  IF built.error # ""
                THEN /\ last' = [op |-> "reconstruct_policy",
                                 error |-> built.error, ret |-> <<>>]
                     /\ UNCHANGED graph
                ELSE \E out \in set_tf_vars(built.graph, loaded_pickle.params,
                                            Some(inner_scope), None, TRUE, FALSE) :
                        /\ graph' = out.graph
                        /\ last' = [op |-> "reconstruct_policy",
                                    error |-> out.error,
                                    ret |-> IF out.error = "" THEN built.pol
                                            ELSE <<>>]
    /\ UNCHANGED <<policy_class, batch_size, expert_dataset, last_demos, files, call>>
    /\ UNCHANGED trainVars

(***************************************************************************)
(* Specification of persistence: a trainer on a one-row dataset is trained,*)
(* saved and reconstructed in one session.                                 *)
(***************************************************************************)
PersistDemos == {Transitions(1, 1)}

InitPersist ==
    /\ graph \in BuiltGraphs
    /\ policy_class \in PolicyClasses
    /\ batch_size = 1
    /\ \E demos \in PersistDemos :
          /\ expert_dataset \in {Some(ds) : ds \in Dataset(demos)}
          /\ last_demos = Some(demos)
    /\ InitFrame
    /\ files = [p \in Paths |-> None]
    /\ call = None
    /\ last = NoLast

NextPersist ==
    \/ \E path \in Paths : save_policy(path)
    \/ \E path \in Paths, sess \in BOOLEAN, default_sess \in BOOLEAN :
          reconstruct_policy(path, sess, default_sess)
    \/ \E demos \in PersistDemos : set_expert_dataset(demos)
    \/ train_call(1, FALSE)
    \/ train_epoch_begin
    \/ train_batch
    \/ train_epoch_end
    \/ train_return

SpecPersist == InitPersist /\ [][NextPersist]_vars

(***************************************************************************)
(* Specification of stand-alone set_tf_vars calls on a trainer's graph.    *)
(***************************************************************************)
SeqsUpTo(S, n) == UNION {[1..k -> S] : k \in 0..n}

\* Scopes callers name: the trainer's policy, the enclosing loss scope, and
\* a scope that holds no variable.
CallScopes ==
    {[base |-> TrainerScope, uniq |-> 0], [base |-> LossScope, uniq |-> 0],
     [base |-> ReconstructScope, uniq |-> 0]}

\* Graphs right after construction, all variables holding the same value.
TransferGraphs == {g \in BuiltGraphs : \A i \in DOMAIN g : g[i].val = g[1].val}

InitTransfer ==
    /\ graph \in TransferGraphs
    /\ policy_class = "FeedForward32Policy"
    /\ batch_size = 1
    /\ expert_dataset = None
    /\ last_demos = None
    /\ InitFrame
    /\ files = [p \in Paths |-> None]
    /\ call \in {Some(c) : c \in
                   [values : SeqsUpTo(Arrays, MaxValues),
                    scope : {None} \cup {Some(sc) : sc \in CallScopes},
                    tf_vars : {None} \cup
                              {Some(t) : t \in SeqsUpTo(1..(NParams + 1), MaxValues)},
                    sess : BOOLEAN,
                    default_sess : BOOLEAN]}
    /\ last = NoLast

NextTransfer == set_tf_vars_call

SpecTransfer == InitTransfer /\ [][NextTransfer]_vars

(***************************************************************************)
(* Vocabulary of the properties.                                           *)
(***************************************************************************)
InTrain == pc # "idle"

HasDataset == expert_dataset # None

\* The trainer was built with expert_demos=None and no dataset was set since.
NeverSet == last_demos = None

\* floor(N / B) for the current dataset; only read when a dataset is set.
StepsPerEpoch == n_samples(expert_dataset[1]) \div batch_size

CountIn(seq, x) == Cardinality({i \in DOMAIN seq : seq[i] = x})

\* Rows of the current pass that lie behind the last full batch.
TrailingSamples ==
    {expert_dataset[1].data_map[j] :
        j \in (batch_size * StepsPerEpoch + 1)..n_samples(expert_dataset[1])}

\* A step of the current pass has produced batch_dict and the pass has not
\* been reshuffled since.
BatchOfThisPass ==
    \/ pc = "batch" /\ expert_dataset[1].next_id > 0
    \/ pc = "epoch" /\ epoch_num > 0

(***************************************************************************)
(* C1: with floor(N/B) >= 1, train(n_epochs) applies exactly floor(N/B)    *)
(* optimizer steps in every epoch and n_epochs * floor(N/B) in total,      *)
(* every step on a batch of exactly B samples, and the trailing N mod B    *)
(* rows of a pass are in no batch of that pass.                            *)
(***************************************************************************)
C1_StepsPerEpoch ==
    (HasDataset /\ InTrain /\ StepsPerEpoch >= 1) =>
        /\ pc # "raised"
        /\ \A k \in 0..(epoch_num - 1) : CountIn(step_log, k) = StepsPerEpoch
        /\ \A i \in DOMAIN step_log : step_log[i] \in EpochRange(n_epochs)
        /\ pc = "batch" =>
              /\ CountIn(step_log, epoch_num) * batch_size =
                    expert_dataset[1].next_id
              /\ CountIn(step_log, epoch_num) <= StepsPerEpoch
        /\ pc = "epoch" => CountIn(step_log, epoch_num) = 0
        /\ TrainFinished => Len(step_log) = n_epochs * StepsPerEpoch
        /\ BatchOfThisPass =>
              /\ Len(batch_dict) = batch_size
              /\ Cardinality(Range(batch_dict)) = batch_size
              /\ Range(batch_dict) \subseteq Range(expert_dataset[1].data_map)
              /\ Range(batch_dict) \cap TrailingSamples = {}

\* A finished two-epoch run over 3 rows in batches of 2: one row is left over.
C1_Witness ==
    /\ HasDataset
    /\ TrainFinished
    /\ n_epochs = 2
    /\ batch_size = 2
    /\ n_samples(expert_dataset[1]) = 3
    /\ Len(step_log) = 2
    /\ TrailingSamples # {}

C7_DatasetIsLatest ==
    /\ HasDataset <=> last_demos # None
    /\ HasDataset =>
        /\ Len(expert_dataset[1].data_map) = Len(last_demos[1])
        /\ Range(expert_dataset[1].data_map) = Range(last_demos[1])
        /\ pc = "batch" => total_batches = Len(last_demos[1]) \div batch_size
        /\ BatchOfThisPass => Range(batch_dict) \subseteq Range(last_demos[1])
        /\ (InTrain /\ pc # "raised") =>
              \A k \in 0..(epoch_num - 1) :
                  CountIn(step_log, k) = Len(last_demos[1]) \div batch_size

\* C7: the dataset is always the latest Transitions, and a set_expert_dataset
\* step changes neither a variable's value nor the batch size.
C7_SetExpertDataset ==
    /\ []C7_DatasetIsLatest
    /\ [][\A demos \in AllDemos :
             set_expert_dataset(demos) =>
                /\ graph' = graph
                /\ batch_size' = batch_size
                /\ policy_class' = policy_class
                /\ expert_dataset' # None
                /\ last_demos' = Some(demos)]_vars

\* A trainer built on Transitions 1 takes a step on a batch of Transitions 2.
C7_Witness ==
    /\ HasDataset
    /\ last_demos = Some(Transitions(2, MaxSamples))
    /\ pc = "batch"
    /\ BatchOfThisPass
    /\ Len(step_log) = 2
    /\ Range(batch_dict) \subseteq Range(Transitions(2, MaxSamples))

(***************************************************************************)
(* C8: with a callback and floor(N/B) >= 1, train calls it once per epoch, *)
(* with epoch numbers 0, 1, ... in order, the k-th call after all steps of *)
(* epoch k and before any step of epoch k+1; without a callback the steps  *)
(* are the same.                                                           *)
(***************************************************************************)
C8_CallbackPerEpoch ==
    (HasDataset /\ InTrain /\ StepsPerEpoch >= 1) =>
        /\ \A i \in DOMAIN step_log : step_log[i] = (i - 1) \div StepsPerEpoch
        /\ TrainFinished => Len(step_log) = n_epochs * StepsPerEpoch
        /\ on_epoch_end =>
              /\ Len(cb_log) = epoch_num
              /\ \A k \in DOMAIN cb_log :
                    /\ cb_log[k].epoch_num = k - 1
                    /\ cb_log[k].steps = k * StepsPerEpoch
              /\ TrainFinished => Len(cb_log) = n_epochs
        /\ ~on_epoch_end => cb_log = <<>>

C8_Witness ==
    /\ HasDataset
    /\ TrainFinished
    /\ on_epoch_end
    /\ n_epochs = 2
    /\ StepsPerEpoch >= 2
    /\ Len(cb_log) = 2

(***************************************************************************)
(* C9: the reported loss average is seeded by the epoch's first batch loss *)
(* and updated by 0.9 * old + 0.1 * loss; it restarts with every epoch, so *)
(* it depends on this epoch's losses alone, and equals the loss of a       *)
(* single-batch epoch.                                                     *)
(***************************************************************************)
RECURSIVE Pow(_, _)
Pow(b, e) == IF e = 0 THEN 1 ELSE b * Pow(b, e - 1)

RECURSIVE SumFrom(_, _, _)
SumFrom(f, i, k) == IF i > k THEN 0 ELSE f[i] + SumFrom(f, i + 1, k)

\* Numerator, over 10^(k-1), of 0.9^(k-1)*l1 + sum_{i>=2} 0.1*0.9^(k-i)*li.
EwmaNumerator(losses) ==
    LET k == Len(losses)
        term == [i \in 1..k |->
                    IF i = 1 THEN Pow(EwmaKeep, k - 1) * losses[1]
                    ELSE EwmaNew * Pow(EwmaKeep, k - i) * Pow(EwmaDen, i - 2)
                            * losses[i]]
    IN  SumFrom(term, 1, k)

\* C9: during and at the end of an epoch loss_ewma is the weighted average of
\* this epoch's batch losses alone; it is the loss itself after one batch.
C9_LossEwma ==
    (HasDataset /\ pc \in {"epoch", "batch"}) =>
        /\ Len(epoch_losses) =
              CountIn(step_log, IF pc = "batch" THEN epoch_num ELSE epoch_num - 1)
        /\ epoch_losses = <<>> => (loss_ewma = None \/ pc = "epoch")
        /\ epoch_losses # <<>> =>
              /\ loss_ewma # None
              /\ loss_ewma[1].den = Pow(EwmaDen, Len(epoch_losses) - 1)
              /\ loss_ewma[1].num = EwmaNumerator(epoch_losses)
        /\ Len(epoch_losses) = 1 =>
              loss_ewma[1].num = epoch_losses[1] * loss_ewma[1].den

\* End of the second epoch, whose two batch losses differ.
C9_Witness ==
    /\ pc = "epoch"
    /\ epoch_num = 2
    /\ Len(epoch_losses) = 2
    /\ epoch_losses[1] # epoch_losses[2]
    /\ loss_ewma # None

(***************************************************************************)
(* C10: with a dataset smaller than one batch (floor(N/B) = 0), train with *)
(* n_epochs >= 1 returns normally: no optimizer step, every epoch done.    *)
(***************************************************************************)
C10_AsStated ==
    (HasDataset /\ InTrain /\ n_epochs >= 1 /\ StepsPerEpoch = 0) =>
        /\ pc # "raised"
        /\ step_log = <<>>
        /\ on_epoch_end => Len(cb_log) = epoch_num

(***************************************************************************)
(* Vocabulary of the persistence and transfer properties.                  *)
(***************************************************************************)
\* No policy has been reconstructed in this graph yet.
FreshContext(g) == \A i \in DOMAIN g : g[i].base # ReconstructScope

\* The values the variables idx hold in graph g.
ValuesAt(g, idx) == [i \in DOMAIN idx |-> g[idx[i]].val]

RecordedValues(record) == [i \in DOMAIN record.params |-> record.params[i].val]

\* reconstruct_policy returned a policy that holds the record's parameters in
\* variables of its own and left every older variable alone.
ReconstructedFrom(record, g, g2, ret) ==
    /\ Len(ret) = Len(record.params)
    /\ ValuesAt(g2, ret) = RecordedValues(record)
    /\ \A i \in DOMAIN ret : ret[i] \notin DOMAIN g /\ g2[ret[i]].trainable
    /\ \A i, j \in DOMAIN ret : i # j => ret[i] # ret[j]
    /\ \A j \in DOMAIN g : g2[j] = g[j]

(***************************************************************************)
(* C3: round trip.  save_policy writes the policy's parameter values of    *)
(* that moment; reconstruct_policy of that path, in a session in which no  *)
(* policy was reconstructed before, returns a policy with the same number  *)
(* of parameters holding those values in declaration order; neither call   *)
(* changes the trainer's own parameters, and only save_policy writes files.*)
(***************************************************************************)
C3_RoundTrip ==
    [][/\ \A path \in Paths :
             save_policy(path) =>
                /\ files'[path] # None
                /\ RecordedValues(files'[path][1]) = PolicyParams(graph)
                /\ Len(files'[path][1].params) = NParams
                /\ graph' = graph
       /\ files' # files => \E path \in Paths : save_policy(path)
       /\ \A path \in Paths, sess \in BOOLEAN, default_sess \in BOOLEAN :
             ( /\ reconstruct_policy(path, sess, default_sess)
               /\ files[path] # None
               /\ sess \/ default_sess
               /\ FreshContext(graph) ) =>
                /\ last'.error = ""
                /\ ReconstructedFrom(files[path][1], graph, graph', last'.ret)
                /\ PolicyParams(graph') = PolicyParams(graph)]_vars

\* A policy reconstructed from a file the trainer has since trained away from.
C3_Witness ==
    /\ last.op = "reconstruct_policy"
    /\ last.error = ""
    /\ Len(last.ret) = NParams
    /\ \E path \in Paths :
          /\ files[path] # None
          /\ ValuesAt(graph, last.ret) = RecordedValues(files[path][1])
          /\ PolicyParams(graph) # RecordedValues(files[path][1])
          /\ RecordedValues(files[path][1])[1] # RecordedValues(files[path][1])[2]

(***************************************************************************)
(* C4: reconstruct_policy builds its policy in a fresh, uniquely named     *)
(* scope: every call with a session and a saved file succeeds, also the    *)
(* second and later ones in one session, returns a policy with the         *)
(* recorded parameters, and touches no variable that existed before.       *)
(***************************************************************************)
C4_AsStated ==
    [][\A path \in Paths, sess \in BOOLEAN, default_sess \in BOOLEAN :
          ( /\ reconstruct_policy(path, sess, default_sess)
            /\ files[path] # None
            /\ sess \/ default_sess ) =>
             /\ last'.error = ""
             /\ ReconstructedFrom(files[path][1], graph, graph', last'.ret)]_vars

(***************************************************************************)
(* Stand-alone set_tf_vars calls.                                          *)
(***************************************************************************)
ExactlyOneGiven == (call[1].scope = None) # (call[1].tf_vars = None)

\* The destination variables of the pending call, when exactly one of scope
\* and tf_vars is given.
Destinations ==
    IF call[1].scope # None THEN get_collection(graph, call[1].scope[1])
    ELSE call[1].tf_vars[1]

SessionAvailable == call[1].sess \/ call[1].default_sess

PositionalResult(g2) ==
    /\ \A i \in DOMAIN Destinations :
          g2[Destinations[i]].val = call[1].values[i].val
    /\ \A j \in DOMAIN graph : j \notin Range(Destinations) => g2[j] = graph[j]

(***************************************************************************)
(* C5: set_tf_vars with exactly one of scope and tf_vars, N destination    *)
(* variables, any N values and a session succeeds, leaves the i-th         *)
(* destination equal to the i-th value and every other variable unchanged. *)
(***************************************************************************)
C5_AsStated ==
    [][( /\ set_tf_vars_call
         /\ ExactlyOneGiven
         /\ Len(Destinations) = Len(call[1].values)
         /\ SessionAvailable ) =>
          /\ last'.error = ""
          /\ PositionalResult(graph')]_vars

\* C5 amended: when moreover the destinations are pairwise distinct and the
\* i-th value has the shape of the i-th destination, the call succeeds, the
\* i-th destination holds the i-th value and no other variable changes.
C5_Positional ==
    [][( /\ set_tf_vars_call
         /\ ExactlyOneGiven
         /\ Len(Destinations) = Len(call[1].values)
         /\ SessionAvailable
         /\ Cardinality(Range(Destinations)) = Len(Destinations)
         /\ \A i \in DOMAIN Destinations :
               call[1].values[i].shape = graph[Destinations[i]].shape ) =>
          /\ last'.error = ""
          /\ PositionalResult(graph')]_vars

\* Two different values written through a scope; the optimiser's variable is
\* no destination.
C5_Witness ==
    /\ call # None
    /\ last.op = "set_tf_vars"
    /\ last.error = ""
    /\ call[1].scope # None
    /\ Len(call[1].values) = 2
    /\ call[1].values[1].val # call[1].values[2].val
    /\ Len(Destinations) = 2
    /\ \A i \in DOMAIN Destinations :
          graph[Destinations[i]].val = call[1].values[i].val

(***************************************************************************)
(* C6: a set_tf_vars call that violates a precondition fails and changes   *)
(* no variable: both or neither of scope and tf_vars is ConfigurationError;*)
(* otherwise a number of values other than the number of destinations is   *)
(* ShapeMismatchError whatever the values; otherwise no session is         *)
(* NoActiveSessionError.                                                   *)
(***************************************************************************)
C6_Preconditions ==
    [][set_tf_vars_call =>
          /\ ~ExactlyOneGiven => last'.error = "ConfigurationError"
          /\ (ExactlyOneGiven /\ Len(Destinations) # Len(call[1].values)) =>
                last'.error = "ShapeMismatchError"
          /\ ( /\ ExactlyOneGiven
               /\ Len(Destinations) = Len(call[1].values)
               /\ ~SessionAvailable ) =>
                last'.error = "NoActiveSessionError"
          /\ last'.error # "" => graph' = graph]_vars

\* More values than destinations, and no session either.
C6_Witness ==
    /\ call # None
    /\ last.op = "set_tf_vars"
    /\ last.error = "ShapeMismatchError"
    /\ ExactlyOneGiven
    /\ ~SessionAvailable
    /\ Len(call[1].values) > Len(Destinations)
    /\ Len(Destinations) > 0

====
